---- MODULE Spec2Model ----
(***************************************************************************)
(* The Dispatcher of src/dispatcher.py as a state machine.                 *)
(*                                                                         *)
(* State: the dispatcher's fields (_taxis, _fareBoard, _revenue,           *)
(* _cancelled), the world's tick counter (simTime), and what the last step *)
(* did: the calls it made on the world (out), the exception it raised, if  *)
(* any (fault), and which units had a passenger when it ran the filters of *)
(* _allocateFare (seen), and the record it deleted or replaced (gone).     *)
(* removed counts the records cancelFare deleted.                          *)
(* The fleet (each unit's passenger, location, route and commitments) is   *)
(* owned by the units: a tick reads it as an input.                        *)
(*                                                                         *)
(* Python dictionaries are modelled as sequences of <<key, value>> entries *)
(* in insertion order; Python lists as sequences; list indices stay        *)
(* 0-based as in the source (index i of a list l is l[i + 1] here).        *)
(***************************************************************************)
EXTENDS Integers, Sequences, FiniteSets, TLC

VARIABLES taxis, fareBoard, revenue, cancelled, simTime, out, fault, seen, gone, removed

vars == <<taxis, fareBoard, revenue, cancelled, simTime, out, fault, seen, gone, removed>>

----------------------------------------------------------------------------
(* Bounds of the model.                                                    *)

\* the world clock reads StartTime when the dispatcher is built and runs to MaxTime
StartTime == 3
MaxTime == 4
\* cancelFare calls that find their key
MaxCancelled == 1
\* the auction: fare records and bids on the board at one time, registered units
MaxFares == 1
MaxBids == 3
MaxTaxis == 2
\* the board: the same, for the runs with several fares
BoardFares == 2
BoardBids == 2
BoardTaxis == 1
\* the bids on the board in the runs where the registry shrinks
StaleBids == 2
\* payments are taken while the revenue is below this
MaxRevenue == 2

\* the units of the world; the registry holds some of them
Units == {1, 2}
\* the nodes of the service area: where fares start, and where they go and
\* the units move
Origins == {1, 2}
Destinations == {3, 4}
\* a node far from the others, which only the pricing runs use
Outskirts == {5}
\* the values the model draws for randint(10, 15): the ends of its range
RandDraws == {10}
\* all of them, for the pricing runs
CostDraws == 10..14
\* the call times fares are announced with
CallTimes == {0, 1}
\* the dispatcher's world and another one
Worlds == {"world", "elsewhere"}
\* the amounts paid
Amounts == {1, 2}
\* the draws for randint(len(available)) are all of 0 .. len(available) - 1

----------------------------------------------------------------------------
(* Python dict and list primitives.                                        *)

DictKeys(d) == [i \in 1..Len(d) |-> d[i].k]

DictHas(d, key) == \E i \in 1..Len(d) : d[i].k = key

DictGet(d, key) == d[CHOOSE i \in 1..Len(d) : d[i].k = key].v

\* d[key] = val: an existing key keeps its position, a new one goes last
DictSet(d, key, val) ==
    IF DictHas(d, key)
    THEN [i \in 1..Len(d) |-> IF d[i].k = key THEN [k |-> key, v |-> val] ELSE d[i]]
    ELSE Append(d, [k |-> key, v |-> val])

\* del d[key]
DictDel(d, key) == SelectSeq(d, LAMBDA e : e.k # key)

\* x in l
InList(l, x) == \E i \in 1..Len(l) : l[i] = x

\* l.index(x), 0-based
ListIndex(l, x) == (CHOOSE i \in 1..Len(l) : l[i] = x /\ \A j \in 1..(i - 1) : l[j] # x) - 1

\* l[i] is defined: Python also takes -len(l) .. -1, counting from the end
IndexOk(l, i) == -Len(l) <= i /\ i < Len(l)

\* l[i] for a 0-based or negative index
ListAt(l, i) == IF i >= 0 THEN l[i + 1] ELSE l[Len(l) + i + 1]

\* l.remove(x): drops the first occurrence
ListRemove(l, x) ==
    LET p == CHOOSE i \in 1..Len(l) : l[i] = x /\ \A j \in 1..(i - 1) : l[j] # x
    IN  [i \in 1..(Len(l) - 1) |-> IF i < p THEN l[i] ELSE l[i + 1]]

RECURSIVE SortSet(_)
SortSet(S) ==
    IF S = {} THEN <<>>
    ELSE LET m == CHOOSE x \in S : \A y \in S : x <= y
         IN  <<m>> \o SortSet(S \ {m})

\* sorted(list(d.keys()))
SortedKeys(d) == SortSet({d[i].k : i \in 1..Len(d)})

----------------------------------------------------------------------------
(* FareEntry and the fare board.                                           *)

FareEntry(origin, dest, time) ==
    [origin |-> origin, destination |-> dest, calltime |-> time,
     price |-> 0, taxi |-> -1, bidders |-> <<>>]

HasFare(board, o, d, t) ==
    /\ DictHas(board, o)
    /\ DictHas(DictGet(board, o), d)
    /\ DictHas(DictGet(DictGet(board, o), d), t)

GetFare(board, o, d, t) == DictGet(DictGet(DictGet(board, o), d), t)

\* board[o][d][t] = fare, for a bucket that exists
PutFare(board, o, d, t, fare) ==
    DictSet(board, o, DictSet(DictGet(board, o), d,
                              DictSet(DictGet(DictGet(board, o), d), t, fare)))

\* the <<origin, destination, time>> keys of the board, in the order
\* "for origin / for destination / for time in the bucket" visits them
RECURSIVE Flatten(_)
Flatten(ss) == IF ss = <<>> THEN <<>> ELSE Head(ss) \o Flatten(Tail(ss))

BoardKeys(board) ==
    Flatten([i \in 1..Len(board) |->
      Flatten([j \in 1..Len(board[i].v) |->
        [n \in 1..Len(board[i].v[j].v) |->
           <<board[i].k, board[i].v[j].k, board[i].v[j].v[n].k>>]])])

NumFares(board) == Len(BoardKeys(board))

\* the fares of the board
Fares(board) ==
    LET keys == BoardKeys(board)
    IN  {GetFare(board, keys[i][1], keys[i][2], keys[i][3]) : i \in 1..Len(keys)}

RECURSIVE SumLen(_)
SumLen(ss) == IF ss = <<>> THEN 0 ELSE Len(Head(ss)) + SumLen(Tail(ss))

\* the bids on the board
NumBids(board) ==
    LET keys == BoardKeys(board)
    IN  SumLen([i \in 1..Len(keys) |-> GetFare(board, keys[i][1], keys[i][2], keys[i][3]).bidders])

\* the value of seen after a step that did not run the filters
NotSeen == [u \in Units |-> FALSE]

----------------------------------------------------------------------------
Init ==
    /\ taxis = <<>>
    /\ fareBoard = <<>>
    /\ revenue = 0
    /\ cancelled = 0
    /\ simTime = StartTime
    /\ out = <<>>
    /\ fault = "none"
    /\ seen = NotSeen
    /\ gone = <<>>
    /\ removed = 0

----------------------------------------------------------------------------
(* Handlers that record events.                                            *)

\* addTaxi(taxi)
AddTaxi(taxi) ==
    /\ taxis' = IF InList(taxis, taxi) THEN taxis ELSE Append(taxis, taxi)
    /\ out' = <<>>
    /\ fault' = "none"
    /\ seen' = NotSeen
    /\ gone' = <<>>
    /\ UNCHANGED <<fareBoard, revenue, cancelled, simTime, removed>>

\* newFare starting the bucket afresh although the destination is known
BoardWithFare_ResetBucket(board, origin, destination, time) ==
    LET withBucket ==
          IF DictHas(board, origin)
          THEN DictSet(board, origin, DictSet(DictGet(board, origin), destination, <<>>))
          ELSE DictSet(board, origin, <<[k |-> destination, v |-> <<>>]>>)
    IN  PutFare(withBucket, origin, destination, time, FareEntry(origin, destination, time))

\* the board after newFare(origin, destination, time) from the owning world
BoardWithFare(board, origin, destination, time) ==
    LET withBucket ==
          IF DictHas(board, origin)
          THEN IF ~DictHas(DictGet(board, origin), destination)
               THEN DictSet(board, origin, DictSet(DictGet(board, origin), destination, <<>>))
               ELSE board
          ELSE DictSet(board, origin, <<[k |-> destination, v |-> <<>>]>>)
    IN  PutFare(withBucket, origin, destination, time, FareEntry(origin, destination, time))

\* newFare(parent, origin, destination, time)
NewFare(parent, origin, destination, time) ==
    /\ fareBoard' = IF parent = "world"
                    THEN BoardWithFare(fareBoard, origin, destination, time)
                    ELSE fareBoard
    /\ gone' = IF parent = "world" /\ HasFare(fareBoard, origin, destination, time)
               THEN GetFare(fareBoard, origin, destination, time)
               ELSE <<>>
    /\ out' = <<>>
    /\ fault' = "none"
    /\ seen' = NotSeen
    /\ UNCHANGED <<taxis, revenue, cancelled, simTime, removed>>

\* cancelFare pruning the origin level alone
Prune_OriginOnly(board, origin, destination) ==
    IF Len(DictGet(board, origin)) = 0 THEN DictDel(board, origin) ELSE board

\* the pruning tail of cancelFare: drop an emptied bucket, then an emptied origin
Prune(board, origin, destination) ==
    LET b1 == IF Len(DictGet(DictGet(board, origin), destination)) = 0
              THEN DictSet(board, origin, DictDel(DictGet(board, origin), destination))
              ELSE board
    IN  IF Len(DictGet(b1, origin)) = 0 THEN DictDel(b1, origin) ELSE b1

\* del board[origin][destination][calltime]
DelFare(board, origin, destination, calltime) ==
    DictSet(board, origin,
            DictSet(DictGet(board, origin), destination,
                    DictDel(DictGet(DictGet(board, origin), destination), calltime)))

\* cancelFare telling every known taxi, not the allocated one alone
CancelCalls_All(origin, idx) ==
    [i \in 1..Len(taxis) |-> [call |-> "cancelFare", origin |-> origin, taxi |-> taxis[i]]]

\* the notice cancelFare sends: self._parent.cancelFare(origin, self._taxis[idx])
CancelCalls(origin, idx) ==
    <<[call |-> "cancelFare", origin |-> origin, taxi |-> ListAt(taxis, idx)]>>

\* cancelFare(parent, origin, destination, calltime)
CancelFare(parent, origin, destination, calltime) ==
    IF parent = "world" /\ DictHas(fareBoard, origin)
       /\ DictHas(DictGet(fareBoard, origin), destination)
    THEN IF DictHas(DictGet(DictGet(fareBoard, origin), destination), calltime)
         THEN LET idx == GetFare(fareBoard, origin, destination, calltime).taxi
              IN  /\ cancelled' = cancelled + 1
                  /\ IF IndexOk(taxis, idx)
                     THEN /\ out' = CancelCalls(origin, idx)
                          /\ fareBoard' = Prune(DelFare(fareBoard, origin, destination, calltime),
                                                origin, destination)
                          /\ removed' = removed + 1
                          /\ gone' = GetFare(fareBoard, origin, destination, calltime)
                          /\ fault' = "none"
                          /\ seen' = NotSeen
                     ELSE \* self._taxis[...] raises before the notice and the del
                          /\ out' = <<>>
                          /\ fault' = "IndexError"
                          /\ seen' = NotSeen
                          /\ gone' = <<>>
                          /\ UNCHANGED <<fareBoard, removed>>
                  /\ UNCHANGED <<taxis, revenue, simTime>>
         ELSE /\ fareBoard' = Prune(fareBoard, origin, destination)
              /\ out' = <<>>
              /\ fault' = "none"
              /\ seen' = NotSeen
              /\ gone' = <<>>
              /\ UNCHANGED <<taxis, revenue, cancelled, simTime, removed>>
    ELSE /\ out' = <<>>
         /\ fault' = "none"
         /\ seen' = NotSeen
         /\ gone' = <<>>
         /\ UNCHANGED <<taxis, fareBoard, revenue, cancelled, simTime, removed>>

\* the key of the first unallocated fare under origin, in dict order; <<>> if none
RECURSIVE FirstOpen(_, _)
FirstOpen(board, keys) ==
    IF keys = <<>> THEN <<>>
    ELSE IF GetFare(board, keys[1][1], keys[1][2], keys[1][3]).taxi = -1
         THEN keys[1]
         ELSE FirstOpen(board, Tail(keys))

KeysUnder(board, origin) == SelectSeq(BoardKeys(board), LAMBDA key : key[1] = origin)

\* fareBid without the check that the taxi is known: an unknown taxi bids
\* under the index the next taxi to register would get
BoardWithBid_NoCheck(board, origin, taxi) ==
    LET key == FirstOpen(board, KeysUnder(board, origin))
    IN  IF DictHas(board, origin) /\ key # <<>>
        THEN LET fare == GetFare(board, key[1], key[2], key[3])
             IN  PutFare(board, key[1], key[2], key[3],
                         [fare EXCEPT !.bidders =
                            Append(@, IF InList(taxis, taxi) THEN ListIndex(taxis, taxi)
                                      ELSE Len(taxis))])
        ELSE board

\* fareBid without the return after the first match: every open fare under
\* the origin takes the bid
RECURSIVE BidEvery(_, _, _)
BidEvery(board, keys, idx) ==
    IF keys = <<>> THEN board
    ELSE LET fare == GetFare(board, keys[1][1], keys[1][2], keys[1][3])
         IN  BidEvery(IF fare.taxi = -1
                      THEN PutFare(board, keys[1][1], keys[1][2], keys[1][3],
                                   [fare EXCEPT !.bidders = Append(@, idx)])
                      ELSE board,
                      Tail(keys), idx)

BoardWithBid_EveryOpen(board, origin, taxi) ==
    IF InList(taxis, taxi) /\ DictHas(board, origin)
    THEN BidEvery(board, KeysUnder(board, origin), ListIndex(taxis, taxi))
    ELSE board

\* the board after fareBid(origin, taxi)
BoardWithBid(board, origin, taxi) ==
    LET key == FirstOpen(board, KeysUnder(board, origin))
    IN  IF InList(taxis, taxi) /\ DictHas(board, origin) /\ key # <<>>
        THEN LET fare == GetFare(board, key[1], key[2], key[3])
             IN  PutFare(board, key[1], key[2], key[3],
                         [fare EXCEPT !.bidders = Append(@, ListIndex(taxis, taxi))])
        ELSE board

\* fareBid(origin, taxi)
FareBid(origin, taxi) ==
    /\ fareBoard' = BoardWithBid(fareBoard, origin, taxi)
    /\ out' = <<>>
    /\ fault' = "none"
    /\ seen' = NotSeen
    /\ gone' = <<>>
    /\ UNCHANGED <<taxis, revenue, cancelled, simTime, removed>>

\* recvPayment taking the payment whatever world it comes from
RecvPayment_AnyWorld(parent, amount) ==
    /\ revenue' = revenue + amount
    /\ out' = <<>>
    /\ fault' = "none"
    /\ seen' = NotSeen
    /\ gone' = <<>>
    /\ UNCHANGED <<taxis, fareBoard, cancelled, simTime, removed>>

\* recvPayment(parent, amount)
RecvPayment(parent, amount) ==
    /\ revenue' = IF parent = "world" THEN revenue + amount ELSE revenue
    /\ out' = <<>>
    /\ fault' = "none"
    /\ seen' = NotSeen
    /\ gone' = <<>>
    /\ UNCHANGED <<taxis, fareBoard, cancelled, simTime, removed>>

----------------------------------------------------------------------------
(* The world outside the dispatcher.                                       *)

\* the world's clock advances
AdvanceTime ==
    /\ simTime' = simTime + 1
    /\ out' = <<>>
    /\ fault' = "none"
    /\ seen' = NotSeen
    /\ gone' = <<>>
    /\ UNCHANGED <<taxis, fareBoard, revenue, cancelled, removed>>



----------------------------------------------------------------------------
(* What a tick reads from the world and the units: the fleet snapshot.     *)

\* the flat fare, the base price, the congestion surcharge, the range of the
\* random factor and the response window of _costFare and _allocateFare
FlatPrice == 150
BasePrice == 10
Surcharge == 7
Deadline == 3

\* the world's travelTime(a, b); negative when the world is gridlocked
TravelTime(a, b, gridlock) ==
    IF gridlock THEN -1
    ELSE IF a = b THEN 0
    ELSE IF a \in Outskirts \/ b \in Outskirts THEN 12
    ELSE IF a \in Origins \/ b \in Origins THEN 5
    ELSE 2

\* what one unit shows: currentLocation, _path, the number of its
\* _availableFares that are allocated, the destination of the second of them
IdleViews == [passenger : {FALSE}, loc : Destinations, path : {<<>>},
              allocated : {0}, dest2 : {3}]

BusyViews == [passenger : {TRUE}, loc : Destinations, path : {<<n>> : n \in Destinations},
              allocated : {1, 2}, dest2 : {3}]

----------------------------------------------------------------------------
(* _costFare                                                               *)

\* the projected completion times _costFare collects, taxi by taxi
RECURSIVE TotalTimes(_, _, _, _)
TotalTimes(i, view, T, gridlock) ==
    IF i > Len(taxis) THEN <<>>
    ELSE LET u == taxis[i]
             v == view[u]
             leg == TravelTime(v.loc, v.path[1], gridlock)
             mine == IF v.passenger
                     THEN IF v.allocated = 1 THEN <<leg + T>>
                          ELSE IF v.allocated = 2
                               THEN <<leg + T + TravelTime(v.path[1], v.dest2, gridlock)>>
                               ELSE <<>>
                     ELSE <<T>>
         IN  mine \o TotalTimes(i + 1, view, T, gridlock)

\* len(available): the taxis with fewer than two allocated fares
Available(view) == Cardinality({i \in 1..Len(taxis) : view[taxis[i]].allocated < 2})

\* _costFare without the test on the number of available taxis
CostFare_NoQuorum(fare, view, gridlock, r, e) ==
    LET T == TravelTime(fare.origin, fare.destination, gridlock)
        times == TotalTimes(1, view, T, gridlock)
        slow == Cardinality({i \in 1..Len(times) : times[i] > T * 2})
    IN  IF T < 0 THEN FlatPrice
        ELSE BasePrice + Surcharge * slow + T + r * e

\* _costFare with the surcharge at twice the travel time already (>= for >)
CostFare_Inclusive(fare, view, gridlock, r, e) ==
    LET T == TravelTime(fare.origin, fare.destination, gridlock)
        times == TotalTimes(1, view, T, gridlock)
        slow == Cardinality({i \in 1..Len(times) : times[i] >= T * 2})
    IN  IF T < 0 THEN FlatPrice
        ELSE IF Available(view) < 2 THEN FlatPrice
        ELSE BasePrice + Surcharge * slow + T + r * e

\* _costFare(fare), with the two random draws r = randint(10, 15) and
\* e = randint(len(available)) passed in
CostFare(fare, view, gridlock, r, e) ==
    LET T == TravelTime(fare.origin, fare.destination, gridlock)
        times == TotalTimes(1, view, T, gridlock)
        slow == Cardinality({i \in 1..Len(times) : times[i] > T * 2})
    IN  IF T < 0 THEN FlatPrice
        ELSE IF Available(view) < 2 THEN FlatPrice
        ELSE BasePrice + Surcharge * slow + T + r * e

----------------------------------------------------------------------------
(* _allocateFare, testFree, testDist                                       *)

\* the domains _allocateFare starts from: one entry per bidder index that
\* resolves to a known taxi
RECURSIVE InitVari(_, _)
InitVari(bidders, vari) ==
    IF bidders = <<>> THEN vari
    ELSE InitVari(Tail(bidders),
                  IF Len(taxis) > Head(bidders)
                  THEN DictSet(vari, Head(bidders), <<"allocate", "no">>)
                  ELSE vari)

\* the first loop of testFree: the bidders without a passenger
RECURSIVE FreeList(_, _)
FreeList(bidders, view) ==
    IF bidders = <<>> THEN [free |-> <<>>, fault |-> "none"]
    ELSE IF ~IndexOk(taxis, Head(bidders)) THEN [free |-> <<>>, fault |-> "IndexError"]
    ELSE LET rest == FreeList(Tail(bidders), view)
         IN  IF rest.fault # "none" THEN rest
             ELSE [free |-> (IF ~view[ListAt(taxis, Head(bidders))].passenger
                             THEN <<Head(bidders)>> ELSE <<>>) \o rest.free,
                   fault |-> "none"]

\* vari[idx].remove("allocate"), with the exceptions Python raises
RemoveAllocate(vari, idx) ==
    IF ~DictHas(vari, idx) THEN [vari |-> vari, fault |-> "KeyError"]
    ELSE IF ~InList(DictGet(vari, idx), "allocate") THEN [vari |-> vari, fault |-> "ValueError"]
    ELSE [vari |-> DictSet(vari, idx, ListRemove(DictGet(vari, idx), "allocate")),
          fault |-> "none"]

\* the second loop of testFree
RECURSIVE DropBusy(_, _, _)
DropBusy(bidders, free, vari) ==
    IF bidders = <<>> THEN [vari |-> vari, fault |-> "none"]
    ELSE IF InList(free, Head(bidders)) THEN DropBusy(Tail(bidders), free, vari)
    ELSE LET r == RemoveAllocate(vari, Head(bidders))
         IN  IF r.fault # "none" THEN r ELSE DropBusy(Tail(bidders), free, r.vari)

\* testFree without its second loop: busy bidders keep "allocate"
TestFree_NoFilter(bidders, vari, view) ==
    LET f == FreeList(bidders, view)
    IN  [vari |-> vari, fault |-> f.fault]

\* testFree(taxis, vari)
TestFree(bidders, vari, view) ==
    LET f == FreeList(bidders, view)
    IN  IF f.fault # "none" THEN [vari |-> vari, fault |-> f.fault]
        ELSE IF Len(f.free) >= 1 THEN DropBusy(bidders, f.free, vari)
        ELSE [vari |-> vari, fault |-> "none"]

\* the detour cost testDist gives a candidate
DetourCost(idx, destination, view, gridlock) ==
    LET u == ListAt(taxis, idx)
        v == view[u]
    IN  IF v.passenger
        THEN LET dropoff == v.path[Len(v.path)]
             IN  TravelTime(v.loc, dropoff, gridlock) + TravelTime(dropoff, destination, gridlock)
        ELSE TravelTime(v.loc, destination, gridlock)

\* the first loop of testDist: distances, keyed by bidder index
RECURSIVE Distances(_, _, _, _, _, _)
Distances(bidders, vari, dist, destination, view, gridlock) ==
    IF bidders = <<>> THEN [dist |-> dist, fault |-> "none"]
    ELSE IF ~DictHas(vari, Head(bidders)) THEN [dist |-> dist, fault |-> "KeyError"]
    ELSE IF ~InList(DictGet(vari, Head(bidders)), "allocate")
         THEN Distances(Tail(bidders), vari, dist, destination, view, gridlock)
    ELSE IF view[ListAt(taxis, Head(bidders))].passenger
            /\ view[ListAt(taxis, Head(bidders))].path = <<>>
         THEN [dist |-> dist, fault |-> "IndexError"]
    ELSE Distances(Tail(bidders), vari,
                   DictSet(dist, Head(bidders),
                           DetourCost(Head(bidders), destination, view, gridlock)),
                   destination, view, gridlock)

\* the second loop of testDist: the first entry with the least distance
RECURSIVE Lowest(_, _)
Lowest(dist, lowest) ==
    IF dist = <<>> THEN lowest
    ELSE Lowest(Tail(dist),
                IF lowest = <<>> THEN <<Head(dist).k, Head(dist).v>>
                ELSE IF Head(dist).v < lowest[2] THEN <<Head(dist).k, Head(dist).v>>
                ELSE lowest)

\* the third loop of testDist: only the lowest keeps "allocate"
RECURSIVE KeepLowest(_, _, _)
KeepLowest(bidders, lowest, vari) ==
    IF bidders = <<>> THEN [vari |-> vari, fault |-> "none"]
    ELSE IF lowest = <<>> THEN [vari |-> vari, fault |-> "IndexError"]
    ELSE IF Head(bidders) # lowest[1] /\ InList(DictGet(vari, Head(bidders)), "allocate")
         THEN KeepLowest(Tail(bidders), lowest,
                         DictSet(vari, Head(bidders),
                                 ListRemove(DictGet(vari, Head(bidders)), "allocate")))
    ELSE KeepLowest(Tail(bidders), lowest, vari)

\* testDist taking the last of the least distances (<= for <)
RECURSIVE LowestOrLater(_, _)
LowestOrLater(dist, lowest) ==
    IF dist = <<>> THEN lowest
    ELSE LowestOrLater(Tail(dist),
                       IF lowest = <<>> THEN <<Head(dist).k, Head(dist).v>>
                       ELSE IF Head(dist).v <= lowest[2] THEN <<Head(dist).k, Head(dist).v>>
                       ELSE lowest)

TestDist_LastWins(destination, bidders, vari, view, gridlock) ==
    LET d == Distances(bidders, vari, <<>>, destination, view, gridlock)
    IN  IF d.fault # "none" THEN [vari |-> vari, fault |-> d.fault]
        ELSE KeepLowest(bidders, LowestOrLater(d.dist, <<>>), vari)

\* testDist(destination, taxis, vari)
TestDist(destination, bidders, vari, view, gridlock) ==
    LET d == Distances(bidders, vari, <<>>, destination, view, gridlock)
    IN  IF d.fault # "none" THEN [vari |-> vari, fault |-> d.fault]
        ELSE KeepLowest(bidders, Lowest(d.dist, <<>>), vari)

\* the last loop of _allocateFare: every entry that kept "allocate" is
\* written to the fare and notified
RECURSIVE Award(_, _, _)
Award(vari, fare, calls) ==
    IF vari = <<>> THEN [fare |-> fare, out |-> calls]
    ELSE IF InList(Head(vari).v, "allocate")
         THEN Award(Tail(vari), [fare EXCEPT !.taxi = Head(vari).k],
                    Append(calls, [call |-> "allocateFare", origin |-> fare.origin,
                                   taxi |-> ListAt(taxis, Head(vari).k)]))
    ELSE Award(Tail(vari), fare, calls)

\* _allocateFare with the window closed one tick early (>= for >)
AllocateFare_Early(fare, view, gridlock) ==
    LET untouched == [fare |-> fare, out |-> <<>>, fault |-> "none"]
    IN  IF simTime - fare.calltime >= Deadline
        THEN LET vari == InitVari(fare.bidders, <<>>)
             IN  IF Len(vari) >= 1
                 THEN LET f == TestFree(fare.bidders, vari, view)
                          d == TestDist(fare.destination, fare.bidders, f.vari, view, gridlock)
                      IN  IF f.fault # "none" THEN [untouched EXCEPT !.fault = f.fault]
                          ELSE IF d.fault # "none" THEN [untouched EXCEPT !.fault = d.fault]
                          ELSE LET a == Award(d.vari, fare, <<>>)
                               IN  [fare |-> a.fare, out |-> a.out, fault |-> "none"]
                 ELSE untouched
        ELSE untouched

\* _allocateFare(origin, destination, time): the fare and the calls after it
AllocateFare(fare, view, gridlock) ==
    LET untouched == [fare |-> fare, out |-> <<>>, fault |-> "none"]
    IN  IF simTime - fare.calltime > Deadline
        THEN LET vari == InitVari(fare.bidders, <<>>)
             IN  IF Len(vari) >= 1
                 THEN LET f == TestFree(fare.bidders, vari, view)
                          d == TestDist(fare.destination, fare.bidders, f.vari, view, gridlock)
                      IN  IF f.fault # "none" THEN [untouched EXCEPT !.fault = f.fault]
                          ELSE IF d.fault # "none" THEN [untouched EXCEPT !.fault = d.fault]
                          ELSE LET a == Award(d.vari, fare, <<>>)
                               IN  [fare |-> a.fare, out |-> a.out, fault |-> "none"]
                 ELSE untouched
        ELSE untouched

----------------------------------------------------------------------------
(* clockTick                                                               *)

\* clockTick taking the times of a bucket as the dict yields them, unsorted
TickKeys_DictOrder(board) == BoardKeys(board)

\* the keys in the order clockTick visits them: origins and destinations in
\* dict order, the times of a bucket sorted
TickKeys(board) ==
    Flatten([i \in 1..Len(board) |->
      Flatten([j \in 1..Len(board[i].v) |->
        LET times == SortedKeys(board[i].v[j].v)
        IN  [n \in 1..Len(times) |-> <<board[i].k, board[i].v[j].k, times[n]>>]])])

\* the prices _costFare can return for a fare, over its random draws
PriceSet(fare, view, gridlock) ==
    {CostFare(fare, view, gridlock, r, e) :
        r \in RandDraws, e \in 0..(IF Available(view) >= 2 THEN Available(view) - 1 ELSE 0)}

\* the loop body pricing every fare that has no bidder yet, priced or not
Visit_Reprice(fare, view, gridlock) ==
    IF fare.price = 0 \/ Len(fare.bidders) = 0
    THEN {[fare |-> [fare EXCEPT !.price = price],
           out |-> <<[call |-> "broadcastFare", origin |-> fare.origin,
                      destination |-> fare.destination, price |-> price]>>,
           fault |-> "none"] : price \in PriceSet(fare, view, gridlock)}
    ELSE IF fare.taxi < 0 /\ Len(fare.bidders) > 0
    THEN {AllocateFare(fare, view, gridlock)}
    ELSE {[fare |-> fare, out |-> <<>>, fault |-> "none"]}

\* the loop body with _allocateFare walking the bidders in either direction,
\* as over a collection without an order
Visit_AnyOrder(fare, view, gridlock) ==
    IF fare.price = 0
    THEN {[fare |-> [fare EXCEPT !.price = price],
           out |-> <<[call |-> "broadcastFare", origin |-> fare.origin,
                      destination |-> fare.destination, price |-> price]>>,
           fault |-> "none"] : price \in PriceSet(fare, view, gridlock)}
    ELSE IF fare.taxi < 0 /\ Len(fare.bidders) > 0
    THEN LET n == Len(fare.bidders)
             backwards == [i \in 1..n |-> fare.bidders[n + 1 - i]]
             r == AllocateFare([fare EXCEPT !.bidders = backwards], view, gridlock)
         IN  {AllocateFare(fare, view, gridlock),
              [r EXCEPT !.fare = [r.fare EXCEPT !.bidders = fare.bidders]]}
    ELSE {[fare |-> fare, out |-> <<>>, fault |-> "none"]}

\* the loop body without the test that the fare has no taxi yet
Visit_Reallocate(fare, view, gridlock) ==
    IF fare.price = 0
    THEN {[fare |-> [fare EXCEPT !.price = price],
           out |-> <<[call |-> "broadcastFare", origin |-> fare.origin,
                      destination |-> fare.destination, price |-> price]>>,
           fault |-> "none"] : price \in PriceSet(fare, view, gridlock)}
    ELSE IF Len(fare.bidders) > 0
    THEN {AllocateFare(fare, view, gridlock)}
    ELSE {[fare |-> fare, out |-> <<>>, fault |-> "none"]}

\* the loop body with "if" for "elif": a fare just priced goes on to the
\* allocation in the same pass
Visit_PriceAndAllocate(fare, view, gridlock) ==
    IF fare.price = 0
    THEN {IF fare.taxi < 0 /\ Len(fare.bidders) > 0
          THEN LET priced == [fare EXCEPT !.price = price]
                   r == AllocateFare(priced, view, gridlock)
               IN  [r EXCEPT !.out =
                      <<[call |-> "broadcastFare", origin |-> fare.origin,
                         destination |-> fare.destination, price |-> price]>> \o @]
          ELSE [fare |-> [fare EXCEPT !.price = price],
                out |-> <<[call |-> "broadcastFare", origin |-> fare.origin,
                           destination |-> fare.destination, price |-> price]>>,
                fault |-> "none"] : price \in PriceSet(fare, view, gridlock)}
    ELSE IF fare.taxi < 0 /\ Len(fare.bidders) > 0
    THEN {AllocateFare(fare, view, gridlock)}
    ELSE {[fare |-> fare, out |-> <<>>, fault |-> "none"]}

\* one pass of the body of clockTick's loop, on one fare: the results
\* [fare, out, fault] it can end with
Visit(fare, view, gridlock) ==
    IF fare.price = 0
    THEN {[fare |-> [fare EXCEPT !.price = price],
           out |-> <<[call |-> "broadcastFare", origin |-> fare.origin,
                      destination |-> fare.destination, price |-> price]>>,
           fault |-> "none"] : price \in PriceSet(fare, view, gridlock)}
    ELSE IF fare.taxi < 0 /\ Len(fare.bidders) > 0
    THEN {AllocateFare(fare, view, gridlock)}
    ELSE {[fare |-> fare, out |-> <<>>, fault |-> "none"]}

\* clockTick's loop from the keys still to visit on: the results
\* [board, out, fault] it can end with; an exception ends it at once
RECURSIVE TickLoop(_, _, _, _, _)
TickLoop(keys, board, calls, view, gridlock) ==
    IF keys = <<>> THEN {[board |-> board, out |-> calls, fault |-> "none"]}
    ELSE LET o == keys[1][1]
             d == keys[1][2]
             t == keys[1][3]
         IN  UNION {IF r.fault # "none"
                    THEN {[board |-> board, out |-> calls, fault |-> r.fault]}
                    ELSE TickLoop(Tail(keys), PutFare(board, o, d, t, r.fare),
                                  calls \o r.out, view, gridlock) :
                    r \in Visit(GetFare(board, o, d, t), view, gridlock)}

\* the tick prices a fare, so _costFare reads the fleet
TickPrices == \E fare \in Fares(fareBoard) : fare.price = 0

\* the tick runs the filters of _allocateFare, so they read the fleet
TickAllocates ==
    \E fare \in Fares(fareBoard) :
        /\ fare.price # 0 /\ fare.taxi < 0 /\ Len(fare.bidders) > 0
        /\ simTime - fare.calltime > Deadline

\* a placeholder for what the tick does not read
NoView == [passenger |-> FALSE, loc |-> 3, path |-> <<>>, allocated |-> 0, dest2 |-> 3]

\* the views of a registered unit a tick can see.  The fields the tick does
\* not read are left at the placeholder's: _costFare returns before it looks
\* at the fleet when the world is gridlocked and never reads where an idle
\* unit is, the filters do not read the commitments
RegisteredViews(gridlock) ==
    IF TickAllocates
    THEN IF TickPrices /\ ~gridlock THEN IdleViews \cup BusyViews
         ELSE {[v EXCEPT !.allocated = 0] : v \in IdleViews \cup BusyViews}
    ELSE IF TickPrices /\ ~gridlock
         THEN {[v EXCEPT !.loc = 3] : v \in IdleViews} \cup BusyViews
         ELSE {NoView}

\* the fleet snapshots: a view for every unit
RECURSIVE ViewsOver(_, _)
ViewsOver(S, registered) ==
    IF S = {} THEN {<<>>}
    ELSE LET u == CHOOSE x \in S : TRUE
         IN  {(u :> v) @@ rest :
                 v \in (IF InList(taxis, u) THEN registered ELSE {NoView}),
                 rest \in ViewsOver(S \ {u}, registered)}

Views(gridlock) == ViewsOver(Units, RegisteredViews(gridlock))

Gridlocks == IF TickPrices \/ TickAllocates THEN BOOLEAN ELSE {FALSE}

\* clockTick(parent)
ClockTick(parent) ==
    IF parent = "world"
    THEN \E gridlock \in Gridlocks : \E view \in Views(gridlock) :
           \E r \in TickLoop(TickKeys(fareBoard), fareBoard, <<>>, view, gridlock) :
              /\ fareBoard' = r.board
              /\ out' = r.out
              /\ fault' = r.fault
              /\ seen' = IF TickAllocates THEN [u \in Units |-> view[u].passenger]
                                           ELSE NotSeen
              /\ gone' = <<>>
              /\ UNCHANGED <<taxis, revenue, cancelled, simTime, removed>>
    ELSE /\ out' = <<>>
         /\ fault' = "none"
         /\ seen' = NotSeen
         /\ gone' = <<>>
         /\ UNCHANGED <<taxis, fareBoard, revenue, cancelled, simTime, removed>>

----------------------------------------------------------------------------
(* The steps of a run, within the bounds.                                  *)

\* the units register in the order of their numbers
Register(maxTaxis) ==
    \E u \in Units :
        /\ InList(taxis, u) \/ (Len(taxis) < maxTaxis /\ u = Len(taxis) + 1)
        /\ AddTaxi(u)

Request(maxFares) ==
    \E p \in Worlds, o \in Origins, d \in Destinations, t \in CallTimes :
        /\ HasFare(fareBoard, o, d, t) \/ NumFares(fareBoard) < maxFares
        /\ NewFare(p, o, d, t)

Cancel ==
    \E p \in Worlds, o \in Origins, d \in Destinations, t \in CallTimes :
        /\ cancelled < MaxCancelled
        /\ CancelFare(p, o, d, t)

Bid(maxBids) ==
    \E o \in Origins, u \in Units : NumBids(fareBoard) < maxBids /\ FareBid(o, u)

Tick == \E p \in Worlds : ClockTick(p)

Clock == simTime < MaxTime /\ AdvanceTime

Next ==
    \/ Register(MaxTaxis)
    \/ Request(MaxFares)
    \/ Cancel
    \/ Bid(MaxBids)
    \/ Tick
    \/ Clock

Spec == Init /\ [][Next]_vars

NextBoard ==
    \/ Register(BoardTaxis)
    \/ Request(BoardFares)
    \/ Cancel
    \/ Bid(BoardBids)
    \/ Tick
    \/ Clock

SpecBoard == Init /\ [][NextBoard]_vars

----------------------------------------------------------------------------
(* The pricing runs: one fare between any two nodes, priced by a tick that *)
(* sees the fleet in any of the states _costFare tells apart, with every   *)
(* random draw.                                                            *)

CostNodes == Origins \cup Destinations \cup Outskirts

\* an idle unit: only its commitments count
CostIdleViews == [passenger : {FALSE}, loc : {3}, path : {<<>>},
                  allocated : 0..3, dest2 : {3}]

\* a unit with a passenger: where it is, where it is heading, its
\* commitments and, with two of them, where the second one goes
CostBusyViews ==
    {v \in [passenger : {TRUE}, loc : {3, 5}, path : {<<3>>, <<5>>},
            allocated : 0..3, dest2 : {3, 5}] :
        v.allocated # 2 => v.dest2 = 3}

CostViews ==
    ViewsOver(Units, IF TickPrices THEN CostIdleViews \cup CostBusyViews ELSE {NoView})

\* the draws of randint(len(available))
CostExpected(view) == 0..(IF Available(view) >= 2 THEN Available(view) - 1 ELSE 0)

CostRequest ==
    \E o \in CostNodes, d \in CostNodes :
        NumFares(fareBoard) = 0 /\ NewFare("world", o, d, 0)

\* clockTick from the owning world on a board whose one fare is unpriced
CostTick ==
    /\ TickPrices
    /\ \E gridlock \in BOOLEAN : \E view \in CostViews :
          \E r \in CostDraws : \E e \in CostExpected(view) :
             LET key == BoardKeys(fareBoard)[1]
                 fare == GetFare(fareBoard, key[1], key[2], key[3])
                 price == CostFare(fare, view, gridlock, r, e)
             IN  /\ fareBoard' = PutFare(fareBoard, key[1], key[2], key[3],
                                         [fare EXCEPT !.price = price])
                 /\ out' = <<[call |-> "broadcastFare", origin |-> fare.origin,
                              destination |-> fare.destination, price |-> price]>>
    /\ fault' = "none"
    /\ seen' = NotSeen
    /\ gone' = <<>>
    /\ UNCHANGED <<taxis, revenue, cancelled, simTime, removed>>

NextCost ==
    \/ Register(MaxTaxis)
    \/ CostRequest
    \/ CostTick

SpecCost == Init /\ [][NextCost]_vars

----------------------------------------------------------------------------
(* The ordering runs: two units, so that two fares priced by one tick can  *)
(* get different prices; fares are announced and priced, nothing else.     *)

NextOrder ==
    \/ Register(MaxTaxis)
    \/ Request(BoardFares)
    \/ Tick

SpecOrder == Init /\ [][NextOrder]_vars

----------------------------------------------------------------------------
(* The stale-bidder runs.  The registry is the list the constructor was    *)
(* given (self._taxis = taxis), so its owner can shorten it; the indices   *)
(* in the bidder lists then point past its end.                            *)

\* the owner of the list drops its last taxi
Unregister ==
    /\ Len(taxis) >= 1
    /\ taxis' = SubSeq(taxis, 1, Len(taxis) - 1)
    /\ out' = <<>>
    /\ fault' = "none"
    /\ seen' = NotSeen
    /\ gone' = <<>>
    /\ UNCHANGED <<fareBoard, revenue, cancelled, simTime, removed>>

NextStale ==
    \/ Register(MaxTaxis)
    \/ Unregister
    \/ Request(MaxFares)
    \/ Bid(StaleBids)
    \/ Tick
    \/ Clock

SpecStale == Init /\ [][NextStale]_vars

----------------------------------------------------------------------------
(* The payment runs: one unit, one fare, and payments from either world.   *)

Pay ==
    \E p \in Worlds, a \in Amounts : revenue < MaxRevenue /\ RecvPayment(p, a)

NextPay ==
    \/ Register(BoardTaxis)
    \/ Request(MaxFares)
    \/ Cancel
    \/ Bid(BoardBids)
    \/ Tick
    \/ Clock
    \/ Pay

SpecPay == Init /\ [][NextPay]_vars

----------------------------------------------------------------------------
(* Properties.                                                             *)

AllKeys == Origins \X Destinations \X CallTimes

KeyOf(fare) == <<fare.origin, fare.destination, fare.calltime>>

OnBoard(board, key) == HasFare(board, key[1], key[2], key[3])

FareAt(board, key) == GetFare(board, key[1], key[2], key[3])

IsAssigned(board, key) == OnBoard(board, key) /\ FareAt(board, key).taxi >= 0

\* a step gave the fare at key its unit
NewlyAssigned(key) == IsAssigned(fareBoard', key) /\ ~IsAssigned(fareBoard, key)

\* a step gave the fare at key its price
NewlyPriced(key) ==
    /\ OnBoard(fareBoard, key) /\ FareAt(fareBoard, key).price = 0
    /\ OnBoard(fareBoard', key) /\ FareAt(fareBoard', key).price # 0

\* the fare is priced, unassigned, has a bidder and is past the response window
Due(key) ==
    /\ OnBoard(fareBoard, key)
    /\ FareAt(fareBoard, key).price # 0
    /\ FareAt(fareBoard, key).taxi < 0
    /\ Len(FareAt(fareBoard, key).bidders) >= 1
    /\ simTime - key[3] > Deadline

\* the unit behind a bidder index
UnitOf(idx) == ListAt(taxis, idx)

Occurrences(seq, x) == Cardinality({i \in 1..Len(seq) : seq[i] = x})

AllocNotice(origin, unit) == [call |-> "allocateFare", origin |-> origin, taxi |-> unit]

CancelNotice(origin, unit) == [call |-> "cancelFare", origin |-> origin, taxi |-> unit]

Broadcast(origin, destination, price) ==
    [call |-> "broadcastFare", origin |-> origin, destination |-> destination, price |-> price]

\* C1: a step assigns a fare only when simTime - calltime > 3, and every
\* allocation notice of a step is for a fare that step assigned under that
\* condition, addressed to the unit assigned.
C1_DeadlineGate ==
    [][/\ \A key \in AllKeys : NewlyAssigned(key) => simTime - key[3] > Deadline
       /\ \A i \in 1..Len(out') :
            out'[i].call = "allocateFare" =>
               \E key \in AllKeys :
                  /\ NewlyAssigned(key)
                  /\ simTime - key[3] > Deadline
                  /\ out'[i] = AllocNotice(key[1], UnitOf(FareAt(fareBoard', key).taxi))]_vars

\* a tick has just assigned a fare, on the first tick past its window
C1_Witness ==
    \E key \in AllKeys :
        /\ IsAssigned(fareBoard, key)
        /\ simTime - key[3] = Deadline + 1
        /\ out = <<AllocNotice(key[1], UnitOf(FareAt(fareBoard, key).taxi))>>

\* C2: a clockTick run while a fare is priced, unassigned, has a bidder and
\* simTime - calltime > 3 raises nothing and leaves the fare assigned to one
\* of its bidders, whatever the bidder list.
C2_AllocationResponse ==
    [][\A key \in AllKeys :
          (Due(key) /\ ClockTick("world")) =>
             /\ fault' = "none"
             /\ IsAssigned(fareBoard', key)
             /\ InList(FareAt(fareBoard, key).bidders, FareAt(fareBoard', key).taxi)]_vars

\* C3: when a step assigns a fare among whose bidders the filters saw an
\* idle unit and a busy one, the unit assigned is idle.
C3_AvailabilityPrecedence ==
    [][\A key \in AllKeys :
          NewlyAssigned(key) =>
             LET fare == FareAt(fareBoard', key)
                 busy(i) == seen'[UnitOf(fare.bidders[i])]
             IN  ((\E i \in 1..Len(fare.bidders) : ~busy(i))
                    /\ (\E i \in 1..Len(fare.bidders) : busy(i)))
                 => ~seen'[UnitOf(fare.taxi)]]_vars

\* a tick has just assigned a fare that an idle and a busy unit bid on, to
\* the idle one
C3_Witness ==
    \E key \in AllKeys :
        /\ IsAssigned(fareBoard, key)
        /\ out = <<AllocNotice(key[1], UnitOf(FareAt(fareBoard, key).taxi))>>
        /\ \E i \in 1..Len(FareAt(fareBoard, key).bidders) :
              seen[UnitOf(FareAt(fareBoard, key).bidders[i])]
        /\ ~seen[UnitOf(FareAt(fareBoard, key).taxi)]

\* C4: a clockTick that completes leaves no record at price 0; the
\* broadcasts of a step are exactly one (origin, destination, price) per
\* record the step priced; and no step changes the price of a priced record
\* (unless newFare replaces the record by a fresh one).
C4_PricedOnce ==
    /\ [](\A gridlock \in Gridlocks : \A view \in Views(gridlock) :
            \A r \in TickLoop(TickKeys(fareBoard), fareBoard, <<>>, view, gridlock) :
               r.fault = "none" => \A fare \in Fares(r.board) : fare.price # 0)
    /\ [][/\ \A key \in AllKeys :
                (OnBoard(fareBoard, key) /\ FareAt(fareBoard, key).price # 0
                   /\ OnBoard(fareBoard', key)) =>
                   \/ FareAt(fareBoard', key).price = FareAt(fareBoard, key).price
                   \/ FareAt(fareBoard', key) = FareEntry(key[1], key[2], key[3])
          /\ \A key \in AllKeys :
               NewlyPriced(key) =>
                  Occurrences(out', Broadcast(key[1], key[2], FareAt(fareBoard', key).price))
                    = Cardinality({other \in AllKeys :
                                     /\ other[1] = key[1] /\ other[2] = key[2]
                                     /\ NewlyPriced(other)
                                     /\ FareAt(fareBoard', other).price
                                          = FareAt(fareBoard', key).price})
          /\ \A i \in 1..Len(out') :
               out'[i].call = "broadcastFare" =>
                  \E key \in AllKeys :
                     /\ NewlyPriced(key)
                     /\ out'[i] = Broadcast(key[1], key[2], FareAt(fareBoard', key).price)]_vars

\* a tick has just priced a fare and broadcast it, once
C4_Witness ==
    \E key \in AllKeys :
        /\ OnBoard(fareBoard, key)
        /\ FareAt(fareBoard, key).price # 0
        /\ out = <<Broadcast(key[1], key[2], FareAt(fareBoard, key).price)>>

\* C5: cancelFare from the owning world on a record that has an assigned
\* unit sends one cancellation notice, to that unit, and adds 1 to the
\* cancellation counter.
C5_CancelAssigned ==
    [][\A key \in AllKeys :
          (IsAssigned(fareBoard, key) /\ CancelFare("world", key[1], key[2], key[3])) =>
             /\ out' = <<CancelNotice(key[1], UnitOf(FareAt(fareBoard, key).taxi))>>
             /\ cancelled' = cancelled + 1]_vars

\* cancelFare has just deleted a record that had an assigned unit, while
\* another unit is registered
C5_Witness ==
    /\ gone # <<>>
    /\ ~OnBoard(fareBoard, KeyOf(gone))
    /\ gone.taxi >= 0
    /\ Len(taxis) >= 2
    /\ out = <<CancelNotice(gone.origin, UnitOf(gone.taxi))>>
    /\ cancelled = 1

\* C6: cancelFare from the owning world on a record with no assigned unit
\* (taxi = -1) sends no cancellation notice.
C6_CancelUnassignedSilent ==
    [][\A key \in AllKeys :
          (OnBoard(fareBoard, key) /\ FareAt(fareBoard, key).taxi = -1
             /\ CancelFare("world", key[1], key[2], key[3])) =>
             \A i \in 1..Len(out') : out'[i].call # "cancelFare"]_vars

\* C7: cancelFare from the owning world on a key of the board ends with the
\* key absent and the counter one higher, on an absent key it changes
\* neither board nor counter and sends nothing; so the counter equals the
\* number of records cancelFare removed.
C7_CancelComplete ==
    /\ [](cancelled = removed)
    /\ [][\A key \in AllKeys :
             CancelFare("world", key[1], key[2], key[3]) =>
                IF OnBoard(fareBoard, key)
                THEN ~OnBoard(fareBoard', key) /\ cancelled' = cancelled + 1
                ELSE UNCHANGED <<fareBoard, cancelled>> /\ out' = <<>>]_vars

\* C8: no origin of the board maps to an empty dict and no (origin,
\* destination) bucket is empty.
C8_NoEmptyLevel ==
    \A i \in 1..Len(fareBoard) :
        /\ Len(fareBoard[i].v) >= 1
        /\ \A j \in 1..Len(fareBoard[i].v) : Len(fareBoard[i].v[j].v) >= 1

\* cancelFare has just deleted the last record of a bucket under an origin
\* that keeps another destination
C8_Witness ==
    /\ gone # <<>>
    /\ ~OnBoard(fareBoard, KeyOf(gone))
    /\ DictHas(fareBoard, gone.origin)
    /\ ~DictHas(DictGet(fareBoard, gone.origin), gone.destination)

\* C9: newFare from the owning world leaves one record at its key, a fresh
\* one, and the records at the other keys as they were; no key occurs twice
\* on the board.
C9_FreshRecord ==
    /\ [](\A key \in AllKeys : Occurrences(BoardKeys(fareBoard), key) <= 1)
    /\ [][\A key \in AllKeys :
             (out' = <<>> /\ NewFare("world", key[1], key[2], key[3])) =>
                /\ Occurrences(BoardKeys(fareBoard'), key) = 1
                /\ FareAt(fareBoard', key) = FareEntry(key[1], key[2], key[3])
                /\ \A other \in AllKeys \ {key} :
                      /\ OnBoard(fareBoard', other) <=> OnBoard(fareBoard, other)
                      /\ OnBoard(fareBoard, other) =>
                            FareAt(fareBoard', other) = FareAt(fareBoard, other)]_vars

\* newFare has just replaced an assigned record by a fresh one, next to
\* another record
C9_Witness ==
    /\ gone # <<>>
    /\ gone.taxi >= 0
    /\ OnBoard(fareBoard, KeyOf(gone))
    /\ FareAt(fareBoard, KeyOf(gone)) = FareEntry(gone.origin, gone.destination, gone.calltime)
    /\ NumFares(fareBoard) = 2

\* C10: fareBid from a unit that is not registered changes nothing of the
\* dispatcher and raises nothing.
C10_RogueBidIgnored ==
    [][\A o \in Origins, u \in Units :
          (~InList(taxis, u) /\ FareBid(o, u)) =>
             /\ UNCHANGED <<taxis, fareBoard, revenue, cancelled>>
             /\ fault' = "none"
             /\ out' = <<>>]_vars

\* the state a bid of an unregistered unit on an origin with an open,
\* bid-on fare ends in
C10_Witness ==
    /\ \E u \in Units : ~InList(taxis, u)
    /\ \E key \in AllKeys :
          /\ OnBoard(fareBoard, key)
          /\ FareAt(fareBoard, key).taxi = -1
          /\ Len(FareAt(fareBoard, key).bidders) >= 1
    /\ out = <<>>
    /\ fault = "none"
    /\ gone = <<>>

\* C11: fareBid from a registered unit appends the unit's registry index to
\* the bidder list of the first unassigned record under the origin, in the
\* board's iteration order, and changes no other record, no key, and none of
\* registry, revenue and cancellation counter; with no unassigned record
\* under the origin it changes nothing.
C11_BidFrame ==
    [][\A o \in Origins, u \in Units :
          (out' = <<>> /\ InList(taxis, u) /\ FareBid(o, u)) =>
             LET keys == BoardKeys(fareBoard)
                 open == {i \in 1..Len(keys) :
                            keys[i][1] = o /\ FareAt(fareBoard, keys[i]).taxi < 0}
                 first == CHOOSE i \in open : \A j \in open : i <= j
                 idx == CHOOSE n \in 0..(Len(taxis) - 1) : taxis[n + 1] = u
             IN  /\ UNCHANGED <<taxis, revenue, cancelled>>
                 /\ fault' = "none"
                 /\ BoardKeys(fareBoard') = keys
                 /\ \A i \in 1..Len(keys) :
                       FareAt(fareBoard', keys[i]) =
                          IF open # {} /\ i = first
                          THEN [FareAt(fareBoard, keys[i]) EXCEPT !.bidders = Append(@, idx)]
                          ELSE FareAt(fareBoard, keys[i])]_vars

\* two open records under one origin, the first in iteration order with a
\* bid and the second with none
C11_Witness ==
    LET keys == BoardKeys(fareBoard)
    IN  /\ Len(keys) = 2
        /\ keys[1][1] = keys[2][1]
        /\ FareAt(fareBoard, keys[1]).taxi = -1
        /\ FareAt(fareBoard, keys[2]).taxi = -1
        /\ Len(FareAt(fareBoard, keys[1]).bidders) >= 1
        /\ FareAt(fareBoard, keys[2]).bidders = <<>>
        /\ out = <<>> /\ gone = <<>>

C13_FlatFallback ==
    /\ \A fare \in Fares(fareBoard) :
          fare.price = 0 =>
             \A gridlock \in BOOLEAN : \A view \in CostViews :
                \A r \in CostDraws : \A e \in CostExpected(view) :
                   (\/ TravelTime(fare.origin, fare.destination, gridlock) < 0
                    \/ Cardinality({i \in 1..Len(taxis) : view[taxis[i]].allocated < 2}) < 2)
                   => CostFare(fare, view, gridlock, r, e) = 150
    /\ \A fare \in Fares(fareBoard) :
          (Len(taxis) < 2 /\ fare.price # 0) => fare.price = 150

\* a tick has just priced a fare at the flat price, with two units
\* registered
C13_Witness ==
    /\ Len(taxis) = 2
    /\ \E fare \in Fares(fareBoard) :
          /\ fare.price = 150
          /\ out = <<Broadcast(fare.origin, fare.destination, 150)>>

\* C14: a price _costFare returns is never 0: with travel time T >= 0 and
\* at least two available units it is 10 + T + 7 * k + r * e, k the number
\* of busy units whose projected completion time exceeds 2 * T, and so at
\* least 10 + T; otherwise it is 150; for every fleet state and every draw.
C14_PricePositive ==
    /\ \A fare \in Fares(fareBoard) : fare.price = 0 \/ fare.price >= 10
    /\ \A fare \in Fares(fareBoard) :
          fare.price = 0 =>
             \A gridlock \in BOOLEAN : \A view \in CostViews :
                \A r \in CostDraws : \A e \in CostExpected(view) :
                   LET T == TravelTime(fare.origin, fare.destination, gridlock)
                       available == Cardinality({i \in 1..Len(taxis) :
                                                   view[taxis[i]].allocated < 2})
                       projected(v) ==
                          TravelTime(v.loc, v.path[1], gridlock) + T
                            + (IF v.allocated = 2
                               THEN TravelTime(v.path[1], v.dest2, gridlock) ELSE 0)
                       k == Cardinality({i \in 1..Len(taxis) :
                                           /\ view[taxis[i]].passenger
                                           /\ view[taxis[i]].allocated \in {1, 2}
                                           /\ projected(view[taxis[i]]) > 2 * T})
                       price == CostFare(fare, view, gridlock, r, e)
                   IN  /\ price > 0
                       /\ IF T >= 0 /\ available >= 2
                          THEN price = 10 + T + 7 * k + r * e /\ price >= 10 + T
                          ELSE price = 150

\* a tick has just priced a fare of travel time 5 with one surcharge and no
\* random part: 10 + 5 + 7
C14_Witness ==
    \E fare \in Fares(fareBoard) :
        /\ fare.origin = 1 /\ fare.destination = 3
        /\ fare.price = 22
        /\ out = <<Broadcast(1, 3, 22)>>

\* C15: when the allocation assigns a fare, the winner is a bidder that
\* survives the availability filter (an idle one if any bidder is idle), no
\* surviving bidder has a lower detour cost, and every surviving bidder
\* earlier in the list has a higher one.  The cost of an idle unit is the
\* travel time from where it is to the fare's destination, of a busy one the
\* travel time to its drop-off plus from there to the fare's destination.
C15_MinimumDetour ==
    \A gridlock \in Gridlocks : \A view \in Views(gridlock) :
       \A fare \in Fares(fareBoard) :
          (fare.price # 0 /\ fare.taxi < 0 /\ Len(fare.bidders) > 0) =>
             LET r == AllocateFare(fare, view, gridlock)
                 b == fare.bidders
                 unit(i) == view[taxis[b[i] + 1]]
                 survives(i) == (\E j \in 1..Len(b) : ~unit(j).passenger)
                                   => ~unit(i).passenger
                 cost(i) ==
                    IF unit(i).passenger
                    THEN LET dropoff == unit(i).path[Len(unit(i).path)]
                         IN  TravelTime(unit(i).loc, dropoff, gridlock)
                               + TravelTime(dropoff, fare.destination, gridlock)
                    ELSE TravelTime(unit(i).loc, fare.destination, gridlock)
             IN  r.fare.taxi >= 0 =>
                    \E w \in 1..Len(b) :
                       /\ b[w] = r.fare.taxi
                       /\ survives(w)
                       /\ \A i \in 1..Len(b) : survives(i) => cost(w) <= cost(i)
                       /\ \A i \in 1..(w - 1) : survives(i) => cost(i) > cost(w)

\* a tick has just assigned a fare to the second of two idle bidders: the
\* later bidder had the lower cost
C15_Witness ==
    \E key \in AllKeys :
        /\ IsAssigned(fareBoard, key)
        /\ out = <<AllocNotice(key[1], UnitOf(FareAt(fareBoard, key).taxi))>>
        /\ Len(FareAt(fareBoard, key).bidders) = 2
        /\ FareAt(fareBoard, key).bidders[2] = FareAt(fareBoard, key).taxi
        /\ FareAt(fareBoard, key).bidders[1] # FareAt(fareBoard, key).taxi
        /\ ~seen[UnitOf(FareAt(fareBoard, key).bidders[1])]

\* C16, as stated: a record that has a unit keeps that unit for as long as
\* its key is on the board, and a step sends one allocation notice per fare
\* it assigns, to the unit assigned.
C16_AtMostOnce ==
    [][/\ \A key \in AllKeys :
            (IsAssigned(fareBoard, key) /\ OnBoard(fareBoard', key)) =>
               FareAt(fareBoard', key).taxi = FareAt(fareBoard, key).taxi
       /\ Cardinality({i \in 1..Len(out') : out'[i].call = "allocateFare"})
            = Cardinality({key \in AllKeys : NewlyAssigned(key)})
       /\ \A key \in AllKeys :
            NewlyAssigned(key) =>
               \E i \in 1..Len(out') :
                  out'[i] = AllocNotice(key[1], UnitOf(FareAt(fareBoard', key).taxi))]_vars

\* C16, amended: a record that has a unit keeps that unit for as long as it
\* is on the board, unless newFare replaces it by a fresh record at its key;
\* and a step sends one allocation notice per fare it assigns, to the unit
\* assigned.
C16_SingleAllocation ==
    [][/\ \A key \in AllKeys :
            (IsAssigned(fareBoard, key) /\ OnBoard(fareBoard', key)) =>
               \/ FareAt(fareBoard', key).taxi = FareAt(fareBoard, key).taxi
               \/ /\ gone' = FareAt(fareBoard, key)
                  /\ FareAt(fareBoard', key) = FareEntry(key[1], key[2], key[3])
       /\ Cardinality({i \in 1..Len(out') : out'[i].call = "allocateFare"})
            = Cardinality({key \in AllKeys : NewlyAssigned(key)})
       /\ \A key \in AllKeys :
            NewlyAssigned(key) =>
               \E i \in 1..Len(out') :
                  out'[i] = AllocNotice(key[1], UnitOf(FareAt(fareBoard', key).taxi))]_vars

\* a tick has just assigned a fare with three bids on it, with one notice
C16_Witness ==
    \E key \in AllKeys :
        /\ IsAssigned(fareBoard, key)
        /\ Len(FareAt(fareBoard, key).bidders) = 3
        /\ Len(out) = 1
        /\ out[1] = AllocNotice(key[1], UnitOf(FareAt(fareBoard, key).taxi))

\* the stage of a record: 0 unpriced, 1 priced and open, 2 assigned
Stage(fare) == IF fare.taxi >= 0 THEN 2 ELSE IF fare.price # 0 THEN 1 ELSE 0

\* C17: every record on the board has price 0 and no unit, or a price above
\* 0 and no unit, or a price above 0 and a unit; a record enters the board
\* unpriced and no step moves a record more than one stage forward: a
\* record priced by a step is not assigned by that step.
C17_Lifecycle ==
    /\ [](\A fare \in Fares(fareBoard) :
            /\ fare.price >= 0
            /\ fare.taxi >= -1
            /\ fare.taxi >= 0 => fare.price > 0)
    /\ [][\A key \in AllKeys :
             OnBoard(fareBoard', key) =>
                IF OnBoard(fareBoard, key)
                THEN /\ Stage(FareAt(fareBoard', key)) <= Stage(FareAt(fareBoard, key)) + 1
                     /\ NewlyPriced(key) => FareAt(fareBoard', key).taxi = -1
                ELSE Stage(FareAt(fareBoard', key)) = 0]_vars

\* a tick has just priced a fare that already had a bidder and was past its
\* response window, and left it unassigned
C17_Witness ==
    \E key \in AllKeys :
        /\ OnBoard(fareBoard, key)
        /\ FareAt(fareBoard, key).price # 0
        /\ FareAt(fareBoard, key).taxi = -1
        /\ Len(FareAt(fareBoard, key).bidders) >= 1
        /\ simTime - key[3] > Deadline
        /\ out = <<Broadcast(key[1], key[2], FareAt(fareBoard, key).price)>>

\* C18: no unit index occurs twice in a record's bidder list; and a step
\* changes the bidder list of a record that stays on the board only by
\* appending to it while the record has no unit, unless newFare replaces
\* the record.
C18_BiddersAreSet ==
    /\ [](\A fare \in Fares(fareBoard) :
            \A i, j \in 1..Len(fare.bidders) :
               i # j => fare.bidders[i] # fare.bidders[j])
    /\ [][\A key \in AllKeys :
             (OnBoard(fareBoard, key) /\ OnBoard(fareBoard', key)) =>
                LET old == FareAt(fareBoard, key).bidders
                    new == FareAt(fareBoard', key).bidders
                IN  \/ new = old
                    \/ /\ FareAt(fareBoard, key).taxi < 0
                       /\ Len(new) > Len(old)
                       /\ SubSeq(new, 1, Len(old)) = old
                    \/ /\ gone' = FareAt(fareBoard, key)
                       /\ new = <<>>]_vars

\* C19: a tick visits every key of the board once, the fares of one
\* (origin, destination) bucket in ascending call-time order whatever order
\* they were inserted in; so when a step has priced the two fares of a
\* bucket at different prices, its first broadcast carries the price of the
\* earlier fare and its second the price of the later one.
C19_AscendingCallTime ==
    LET keys == TickKeys(fareBoard)
    IN  /\ Len(keys) = Len(BoardKeys(fareBoard))
        /\ \A key \in AllKeys :
              Occurrences(keys, key) = Occurrences(BoardKeys(fareBoard), key)
        /\ \A i, j \in 1..Len(keys) :
              (i < j /\ keys[i][1] = keys[j][1] /\ keys[i][2] = keys[j][2])
                 => keys[i][3] < keys[j][3]
        /\ (/\ Len(out) = 2
            /\ out[1].call = "broadcastFare" /\ out[2].call = "broadcastFare"
            /\ out[1].origin = out[2].origin
            /\ out[1].destination = out[2].destination
            /\ out[1].price # out[2].price)
           => \E t1, t2 \in CallTimes :
                 /\ t1 < t2
                 /\ OnBoard(fareBoard, <<out[1].origin, out[1].destination, t1>>)
                 /\ OnBoard(fareBoard, <<out[1].origin, out[1].destination, t2>>)
                 /\ FareAt(fareBoard, <<out[1].origin, out[1].destination, t1>>).price
                      = out[1].price
                 /\ FareAt(fareBoard, <<out[1].origin, out[1].destination, t2>>).price
                      = out[2].price

\* a tick has just priced the two fares of a bucket that holds the later
\* call time first, at different prices
C19_Witness ==
    LET keys == BoardKeys(fareBoard)
    IN  /\ Len(keys) = 2
        /\ keys[1][1] = keys[2][1] /\ keys[1][2] = keys[2][2]
        /\ keys[1][3] > keys[2][3]
        /\ FareAt(fareBoard, keys[1]).price # FareAt(fareBoard, keys[2]).price
        /\ out = <<Broadcast(keys[2][1], keys[2][2], FareAt(fareBoard, keys[2]).price),
                   Broadcast(keys[1][1], keys[1][2], FareAt(fareBoard, keys[1]).price)>>

\* C20: the allocation run on a priced, unassigned fare past its window,
\* whose bidder list holds an index out of the registry's range, raises
\* nothing; with a valid index in the list too it assigns the fare to one of
\* the valid bidders, and with none it leaves the fare as it is and sends
\* nothing.
C20_StaleSkipped ==
    \A gridlock \in Gridlocks : \A view \in Views(gridlock) :
       \A fare \in Fares(fareBoard) :
          LET b == fare.bidders
              valid == {b[i] : i \in {j \in 1..Len(b) : b[j] >= 0 /\ b[j] < Len(taxis)}}
              stale == {b[i] : i \in {j \in 1..Len(b) : ~(b[j] >= 0 /\ b[j] < Len(taxis))}}
              r == AllocateFare(fare, view, gridlock)
          IN  (/\ fare.price # 0 /\ fare.taxi < 0
               /\ simTime - fare.calltime > Deadline
               /\ stale # {}) =>
                 /\ r.fault = "none"
                 /\ IF valid # {}
                    THEN /\ r.fare.taxi \in valid
                         /\ r.out = <<AllocNotice(fare.origin, UnitOf(r.fare.taxi))>>
                    ELSE r.fare = fare /\ r.out = <<>>

\* C21: newFare, cancelFare, recvPayment and clockTick called with a parent
\* that is not the owning world change none of registry, fare board, revenue
\* and cancellation counter, raise nothing and make no call on the world;
\* and a step that changes the revenue is a recvPayment from the owning
\* world, which adds the amount paid and changes nothing else.
C21_WorldGuard ==
    [][/\ \A key \in AllKeys :
            (\/ NewFare("elsewhere", key[1], key[2], key[3])
             \/ CancelFare("elsewhere", key[1], key[2], key[3])) =>
               /\ UNCHANGED <<taxis, fareBoard, revenue, cancelled>>
               /\ out' = <<>> /\ fault' = "none"
       /\ ((\E a \in Amounts : RecvPayment("elsewhere", a)) \/ ClockTick("elsewhere")) =>
               /\ UNCHANGED <<taxis, fareBoard, revenue, cancelled>>
               /\ out' = <<>> /\ fault' = "none"
       /\ \A a \in Amounts :
            RecvPayment("world", a) =>
               /\ revenue' = revenue + a
               /\ UNCHANGED <<taxis, fareBoard, cancelled>>
               /\ out' = <<>> /\ fault' = "none"
       /\ revenue' # revenue =>
            \E a \in Amounts : revenue' = revenue + a /\ RecvPayment("world", a)]_vars

\* the state the calls of another world end in, with revenue taken, an
\* assigned fare on the board and a cancellation counted
C21_Witness ==
    /\ revenue = 3
    /\ \E key \in AllKeys : IsAssigned(fareBoard, key)
    /\ cancelled = 1
    /\ out = <<>>
    /\ fault = "none"
    /\ gone = <<>>

====
